---- MODULE Spec2Model ----
(***************************************************************************)
(* Model of the AAVE TVL / price pipeline (src/app.py, src/scraper.py):    *)
(* the paged price fetch, the protected-page scrape, the merge engine and  *)
(* the two orchestrators, and the dashboard script that shows the result.  *)
(*                                                                         *)
(* Python values are modelled as tagged records (Num, Str, None, NaN);     *)
(* strings are sequences of one-character strings so that int(), float()   *)
(* and str.isdigit() are computed from the characters.  Dates are day      *)
(* numbers since 1970-01-01; timestamps keep their real units (seconds or  *)
(* milliseconds).                                                          *)
(***************************************************************************)
EXTENDS Integers, Sequences, FiniteSets, TLC

VARIABLES
    impl,             \* "app" or "scraper": the file whose code is running
    entry,            \* the function called from outside
    tz,               \* the local timezone: seconds east of UTC
    \* process_and_merge
    m_pc, tvl_data_raw, price_data_raw, processed_tvl, df_tvl, df_price, m_out,
    \* fetch_price_data
    f_pc, start_date_str, exchange, all_ohlcv, since_timestamp, requests,
    served, caught, f_out,
    \* scrape_aave_tvl_raw
    s_pc, scraper, response, tvl_chart_data, s_out,
    \* fetch_all_data / load_master_data / main
    o_pc, tvl_raw, oldest_date_str, price_raw, calls, df_final,
    \* the dashboard script (app.py, module level)
    d_pc, df_full, min_date, max_date, selected_timeframe, start_date,
    df_filtered_for_corr, notices, d_out

mergeVars == <<m_pc, tvl_data_raw, price_data_raw, processed_tvl, df_tvl, df_price, m_out>>
fetchVars == <<f_pc, start_date_str, exchange, all_ohlcv, since_timestamp, requests, served, caught, f_out>>
scrapeVars == <<s_pc, scraper, response, tvl_chart_data, s_out>>
orchVars == <<o_pc, tvl_raw, oldest_date_str, price_raw, calls, df_final>>
dashVars == <<d_pc, df_full, min_date, max_date, selected_timeframe, start_date,
              df_filtered_for_corr, notices, d_out>>
vars == <<impl, entry, tz, mergeVars, fetchVars, scrapeVars, orchVars, dashVars>>
othersOfMerge == <<impl, entry, tz, fetchVars, scrapeVars, orchVars, dashVars>>
othersOfFetch == <<impl, entry, tz, mergeVars, scrapeVars, orchVars, dashVars>>
othersOfScrape == <<impl, entry, tz, mergeVars, fetchVars, orchVars, dashVars>>

(***************************************************************************)
(* Bounds of the model.                                                    *)
(***************************************************************************)
MaxTvlLen == 2
MaxCandleLen == 2
MaxPages == 2
MaxPipePages == 1
MaxScrapedLen == 2

(***************************************************************************)
(* Python values.                                                          *)
(***************************************************************************)
Num(i) == [k |-> "num", n |-> i, s |-> <<>>]
Str(chars) == [k |-> "str", n |-> 0, s |-> chars]
None == [k |-> "none", n |-> 0, s |-> <<>>]
NaN == [k |-> "nan", n |-> 0, s |-> <<>>]

\* The outcome of an expression: a value, or the exception it raises.
Ok(v) == [ok |-> TRUE, v |-> v, exc |-> ""]
Raise(e) == [ok |-> FALSE, v |-> None, exc |-> e]

\* The state of a call: pending, returned with a value, or left by an exception.
Pending == [st |-> "pending", rows |-> <<>>, exc |-> ""]
Returned(rows) == [st |-> "returned", rows |-> rows, exc |-> ""]
Raised(e) == [st |-> "raised", rows |-> <<>>, exc |-> e]

Digits == {"0", "1", "2", "3", "4", "5", "6", "7", "8", "9"}

DigitVal(c) ==
    CASE c = "0" -> 0 [] c = "1" -> 1 [] c = "2" -> 2 [] c = "3" -> 3
      [] c = "4" -> 4 [] c = "5" -> 5 [] c = "6" -> 6 [] c = "7" -> 7
      [] c = "8" -> 8 [] c = "9" -> 9

RECURSIVE DecimalValue(_)
DecimalValue(chars) ==
    IF chars = <<>> THEN 0
    ELSE 10 * DecimalValue(SubSeq(chars, 1, Len(chars) - 1)) + DigitVal(chars[Len(chars)])

\* str.isdigit(): non-empty and every character a digit.
IsDigit(chars) == chars # <<>> /\ \A i \in 1..Len(chars) : chars[i] \in Digits

\* A decimal literal as int() and float() read it: an optional sign, then digits.
IsSignedDecimal(chars) ==
    \/ IsDigit(chars)
    \/ Len(chars) >= 2 /\ chars[1] = "-" /\ IsDigit(Tail(chars))

SignedDecimalValue(chars) ==
    IF chars[1] = "-" THEN 0 - DecimalValue(Tail(chars)) ELSE DecimalValue(chars)

\* int(x)
PyInt(x) ==
    CASE x.k = "num" -> Ok(Num(x.n))
      [] x.k = "str" -> IF IsSignedDecimal(x.s) THEN Ok(Num(SignedDecimalValue(x.s)))
                        ELSE Raise("ValueError")
      [] x.k = "nan" -> Raise("ValueError")
      [] OTHER -> Raise("TypeError")

\* float(x): the literal "nan" parses, to a not-a-number.
PyFloat(x) ==
    CASE x.k = "num" -> Ok(Num(x.n))
      [] x.k = "nan" -> Ok(NaN)
      [] x.k = "str" -> IF IsSignedDecimal(x.s) THEN Ok(Num(SignedDecimalValue(x.s)))
                        ELSE IF x.s = <<"n", "a", "n">> THEN Ok(NaN)
                        ELSE Raise("ValueError")
      [] OTHER -> Raise("TypeError")

\* seq[i] with Python's 0-based index i.
PyIndex(seq, i) == IF i < Len(seq) THEN Ok(seq[i + 1]) ELSE Raise("IndexError")

\* seq + [x] for every x of xs, in order.
RECURSIVE Flatten(_)
Flatten(seqs) == IF seqs = <<>> THEN <<>> ELSE Head(seqs) \o Flatten(Tail(seqs))

SeqsUpTo(S, n) == UNION {[1..m -> S] : m \in 0..n}

(***************************************************************************)
(* Time.  pd.to_datetime(.., unit=..).dt.normalize() floors a timestamp to *)
(* its UTC day.                                                            *)
(***************************************************************************)
SecondsPerDay == 86400
MsPerSecond == 1000

NormalizeSeconds(ts) == ts \div SecondsPerDay
NormalizeMs(ts) == ts \div (SecondsPerDay * MsPerSecond)


\* Days since 1970-01-01 of a date of the proleptic Gregorian calendar.
DaysFromCivil(y, m, d) ==
    LET yy == IF m <= 2 THEN y - 1 ELSE y
        era == yy \div 400
        yoe == yy - era * 400
        mp == IF m > 2 THEN m - 3 ELSE m + 9
        doy == (153 * mp + 2) \div 5 + d - 1
        doe == yoe * 365 + yoe \div 4 - yoe \div 100 + doy
    IN era * 146097 + doe - 719468

\* The date <<year, month, day>> of a day number.
CivilFromDays(z) ==
    LET zz == z + 719468
        era == zz \div 146097
        doe == zz - era * 146097
        yoe == (doe - doe \div 1460 + doe \div 36524 - doe \div 146096) \div 365
        doy == doe - (365 * yoe + yoe \div 4 - yoe \div 100)
        mp == (5 * doy + 2) \div 153
        d == doy - (153 * mp + 2) \div 5 + 1
        m == IF mp < 10 THEN mp + 3 ELSE mp - 9
        y == yoe + era * 400
    IN <<IF m <= 2 THEN y + 1 ELSE y, m, d>>

IsLeap(y) == (y % 4 = 0 /\ y % 100 # 0) \/ y % 400 = 0
DaysInMonth(y, m) ==
    IF m = 2 THEN (IF IsLeap(y) THEN 29 ELSE 28)
    ELSE IF m \in {4, 6, 9, 11} THEN 30 ELSE 31

DigitChars == <<"0", "1", "2", "3", "4", "5", "6", "7", "8", "9">>

\* The decimal digits of n >= 0, zero-padded to at least width characters.
RECURSIVE ZeroPadded(_, _)
ZeroPadded(n, width) ==
    IF n < 10 /\ width <= 1 THEN <<DigitChars[n + 1]>>
    ELSE ZeroPadded(n \div 10, width - 1) \o <<DigitChars[(n % 10) + 1]>>

\* The parts of chars between the separators sep.
RECURSIVE Split(_, _)
Split(chars, sep) ==
    IF \A i \in 1..Len(chars) : chars[i] # sep THEN <<chars>>
    ELSE LET i == CHOOSE j \in 1..Len(chars) :
                      chars[j] = sep /\ \A h \in 1..(j - 1) : chars[h] # sep
         IN <<SubSeq(chars, 1, i - 1)>> \o Split(SubSeq(chars, i + 1, Len(chars)), sep)

\* date.strftime('%Y-%m-%d') of a day number.
StrFTime(day) ==
    LET c == CivilFromDays(day) IN
    ZeroPadded(c[1], 4) \o <<"-">> \o ZeroPadded(c[2], 2) \o <<"-">> \o ZeroPadded(c[3], 2)

\* datetime.strptime(s, '%Y-%m-%d'): the day number, or ValueError.  %Y takes
\* four digits, %m and %d one or two.
StrPTime(chars) ==
    LET parts == Split(chars, "-") IN
    IF \/ Len(parts) # 3
       \/ \E i \in 1..3 : ~IsDigit(parts[i])
       \/ Len(parts[1]) # 4 \/ Len(parts[2]) > 2 \/ Len(parts[3]) > 2
    THEN Raise("ValueError")
    ELSE LET y == DecimalValue(parts[1])
             m == DecimalValue(parts[2])
             d == DecimalValue(parts[3]) IN
         IF y < 1 \/ m < 1 \/ m > 12 \/ d < 1 \/ d > DaysInMonth(y, m)
         THEN Raise("ValueError")
         ELSE Ok(Num(DaysFromCivil(y, m, d)))

\* naive_datetime.timestamp(): the epoch second of local midnight of a day.
LocalMidnight(day, offset) == day * SecondsPerDay - offset

\* datetime.fromtimestamp(sec): the local day of an epoch second.
LocalDay(sec, offset) == (sec + offset) \div SecondsPerDay

\* since_timestamp is a millisecond count too large for TLC's integers
\* when the start date is recent: it is held as whole seconds and a remainder.
Millis(sec, ms) == [sec |-> sec, ms |-> ms]
MillisOf(n) == Millis(n \div MsPerSecond, n % MsPerSecond)

(***************************************************************************)
(* Inputs.                                                                 *)
(***************************************************************************)
S_100 == <<"1", "0", "0">>
S_110 == <<"1", "1", "0">>
S_86400 == <<"8", "6", "4", "0", "0">>
S_bad == <<"b", "a", "d">>
S_x == <<"x">>
S_nan == <<"n", "a", "n">>

\* Raw TVL points: [timestamp_like, value_like] arrays, some malformed.
TvlPoints ==
    { <<Num(0), Str(S_100)>>,            \* day 0
      <<Str(S_86400), Str(S_110)>>,      \* day 1, timestamp as a digit string
      <<Num(1), Num(5)>>,                \* day 0 again, one second later
      <<Num(86400), Str(S_nan)>>,        \* day 1, value "nan"
      <<Str(S_bad), Str(S_100)>>,        \* timestamp does not parse
      <<Num(0), Str(S_x)>>,              \* value does not parse
      <<None, Num(7)>>,                  \* null timestamp
      <<Num(0)>>,                        \* no value field
      <<>> }                             \* no field

Candle(ts, close) == <<Num(ts), Num(1), Num(1), Num(1), Num(close), Num(1)>>

\* Raw candles: [timestamp_ms, open, high, low, close, volume], and rows of
\* the wrong arity.
Candles ==
    { Candle(0, 10),                     \* day 0
      Candle(1, 11),                     \* day 0, one millisecond later
      Candle(86400000, 12),              \* day 1
      <<Num(86400000), Num(1)>>,         \* 2 fields
      <<>>,                              \* no field
      Candle(0, 10) \o <<Num(1)>> }      \* 7 fields

\* Non-empty pages the exchange may return.
Pages ==
    { <<Candle(0, 10), Candle(1, 11)>>,
      <<Candle(1, 13), Candle(86400000, 12)>>,   \* repeats timestamp 1
      <<Candle(86400000, 12)>>,
      <<<<Num(86400000), Num(1)>>>>,             \* a row of 2 fields
      <<<<>>, Candle(0, 10)>>,                   \* a row of no field, not last
      <<Candle(0, 10), <<>>>> }                  \* a row of no field, last

S_1577836800 == <<"1", "5", "7", "7", "8", "3", "6", "8", "0", "0">>

\* The points of a scraped tvlChartData array.
ScrapedPoints ==
    { <<Num(0), Str(S_100)>>,            \* day 0, timestamp a number
      <<Str(S_1577836800), Num(5)>>,     \* 2020-01-01 UTC, timestamp a digit string
      <<Str(S_bad), Str(S_100)>>,        \* timestamp not numeric
      <<None, Num(7)>>,                  \* null timestamp
      <<>> }                             \* no field

ScrapedLists == SeqsUpTo(ScrapedPoints, MaxScrapedLen)

NoResponse == [get |-> "none", status |-> 0, script |-> "missing", top |-> "dict",
               props |-> "missing", pageProps |-> "missing", tvl |-> "missing", data |-> <<>>]
Page(status, script, top, props, pageProps, tvl, data) ==
    [get |-> "ok", status |-> status, script |-> script, top |-> top,
     props |-> props, pageProps |-> pageProps, tvl |-> tvl, data |-> data]

\* What scraper.get may give.
Responses ==
    { [NoResponse EXCEPT !.get = "raises"],
      Page(404, "missing", "dict", "missing", "missing", "missing", <<>>),
      Page(404, "json", "dict", "dict", "dict", "list", <<<<Num(0), Str(S_100)>>>>),
      Page(200, "missing", "dict", "missing", "missing", "missing", <<>>),
      Page(200, "no_string", "dict", "missing", "missing", "missing", <<>>),
      Page(200, "not_json", "dict", "missing", "missing", "missing", <<>>),
      Page(200, "json", "list", "missing", "missing", "missing", <<>>),
      Page(200, "json", "dict", "missing", "missing", "missing", <<>>),
      Page(200, "json", "dict", "null", "missing", "missing", <<>>),
      Page(200, "json", "dict", "dict", "missing", "missing", <<>>),
      Page(200, "json", "dict", "dict", "null", "missing", <<>>),
      Page(200, "json", "dict", "dict", "dict", "missing", <<>>),
      Page(200, "json", "dict", "dict", "dict", "null", <<>>) }
    \cup {Page(200, "json", "dict", "dict", "dict", "list", d) : d \in ScrapedLists}

\* The pages of a pipeline run.
PipePages ==
    { <<Candle(0, 10), Candle(86400000, 12)>>,
      <<<<Num(86400000), Num(1)>>>>,             \* a row of 2 fields
      <<Candle(0, 10), <<>>>> }                  \* a row of no field

S_1970_01_01 == <<"1", "9", "7", "0", "-", "0", "1", "-", "0", "1">>
S_1970_01_02 == <<"1", "9", "7", "0", "-", "0", "1", "-", "0", "2">>
S_1970_slash == <<"1", "9", "7", "0", "/", "0", "1", "/", "0", "1">>

\* start_date_str arguments of a direct call.
StartDates == {Str(S_1970_01_01), Str(S_1970_01_02), Str(S_1970_slash)}

\* UTC and UTC-5.
TzOffsets == {0, -18000}

IdleMerge ==
    /\ m_pc = "idle" /\ tvl_data_raw = <<>> /\ price_data_raw = <<>>
    /\ processed_tvl = <<>> /\ df_tvl = <<>> /\ df_price = <<>> /\ m_out = Pending

IdleFetch ==
    /\ f_pc = "idle" /\ start_date_str = None /\ exchange = "none"
    /\ all_ohlcv = <<>> /\ since_timestamp = Millis(0, 0) /\ requests = <<>>
    /\ served = <<>> /\ caught = "" /\ f_out = Pending

IdleScrape ==
    /\ s_pc = "idle" /\ scraper = "none" /\ response = NoResponse
    /\ tvl_chart_data = None /\ s_out = Pending

IdleOrch ==
    /\ o_pc = "idle" /\ tvl_raw = <<>> /\ oldest_date_str = None
    /\ price_raw = <<>> /\ calls = <<>> /\ df_final = Pending

\* A frame as the dashboard sees it: its columns and its rows.
Frame(columns, rows) == [columns |-> columns, rows |-> rows]

IdleDash ==
    /\ d_pc = "idle" /\ df_full = Frame({}, <<>>) /\ min_date = 0 /\ max_date = 0
    /\ selected_timeframe = "All" /\ start_date = 0
    /\ df_filtered_for_corr = <<>> /\ notices = <<>> /\ d_out = Pending

(***************************************************************************)
(* process_and_merge                                                       *)
(***************************************************************************)
EmptyDataFrame == <<>>

\* The exceptions the TVL loop's except clause names.
TvlLoopCatches == {"ValueError", "IndexError", "TypeError"}

\* The body of the try block for one item: the record appended, or the
\* exception raised by item[0], int(), item[1] or float().
ParseTvlItem(item) ==
    LET f0 == PyIndex(item, 0) IN
    IF ~f0.ok THEN Raise(f0.exc) ELSE
    LET ts == PyInt(f0.v) IN
    IF ~ts.ok THEN Raise(ts.exc) ELSE
    LET f1 == PyIndex(item, 1) IN
    IF ~f1.ok THEN Raise(f1.exc) ELSE
    LET val == PyFloat(f1.v) IN
    IF ~val.ok THEN Raise(val.exc) ELSE
    [ok |-> TRUE, v |-> [timestamp |-> ts.v.n, tvl |-> val.v], exc |-> ""]

\* One iteration of "for item in tvl_data_raw": acc is [rows, exc]; an
\* exception the except clause does not name leaves the loop.
TvlLoopStepAborting(acc, item) ==
    IF acc.exc # "" THEN acc
    ELSE LET r == ParseTvlItem(item) IN
         IF r.ok THEN [acc EXCEPT !.rows = Append(@, r.v)]
         ELSE [acc EXCEPT !.rows = <<>>]
TvlLoopStep(acc, item) ==
    IF acc.exc # "" THEN acc
    ELSE LET r == ParseTvlItem(item) IN
         IF r.ok THEN [acc EXCEPT !.rows = Append(@, r.v)]
         ELSE IF r.exc \in TvlLoopCatches THEN acc
         ELSE [acc EXCEPT !.exc = r.exc]

RECURSIVE TvlLoop(_, _)
TvlLoop(acc, items) ==
    IF items = <<>> THEN acc ELSE TvlLoop(TvlLoopStep(acc, Head(items)), Tail(items))

CleanTvl(raw) == TvlLoop([rows |-> <<>>, exc |-> ""], raw)

\* df_tvl: date = normalized timestamp, columns date and tvl.
TvlFrame(processed) ==
    [i \in 1..Len(processed) |->
        [date |-> NormalizeSeconds(processed[i].timestamp), tvl |-> processed[i].tvl]]

CandleColumns == 6
PriceColumn == 5

RECURSIVE MaxRowLen(_)
MaxRowLen(rows) ==
    IF rows = <<>> THEN 0
    ELSE LET m == MaxRowLen(Tail(rows)) IN
         IF Len(Head(rows)) > m THEN Len(Head(rows)) ELSE m

\* A cell of the frame built from ragged rows: short rows are padded with None.
Cell(row, col) == IF col <= Len(row) THEN row[col] ELSE None

\* to_datetime(unit='ms').dt.normalize() of one cell: a missing value is NaT.
PriceDate(cell) == IF cell.k = "num" THEN Num(NormalizeMs(cell.n)) ELSE None

\* pd.DataFrame(price_data_raw, columns=[6 names]) and the date column: the
\* constructor raises unless the longest row has exactly 6 fields.
PriceFrame(raw) ==
    IF MaxRowLen(raw) # CandleColumns THEN Raise("ValueError")
    ELSE [ok |-> TRUE,
          v |-> [i \in 1..Len(raw) |->
                    [date |-> PriceDate(Cell(raw[i], 1)),
                     price |-> Cell(raw[i], PriceColumn)]],
          exc |-> ""]

\* pd.to_numeric of one cell.
ToNumeric(cell) == IF cell.k = "num" THEN cell ELSE NaN

\* The rows pd.merge(how='inner') makes for one left row, in right order.
RECURSIVE MatchRight(_, _)
MatchRight(l, right) ==
    IF right = <<>> THEN <<>>
    ELSE LET r == Head(right) IN
         (IF r.date = Num(l.date)
          THEN <<[date |-> l.date, tvl |-> ToNumeric(l.tvl), price |-> ToNumeric(r.price)]>>
          ELSE <<>>) \o MatchRight(l, Tail(right))

RECURSIVE InnerJoin(_, _)
InnerJoin(left, right) ==
    IF left = <<>> THEN <<>>
    ELSE MatchRight(Head(left), right) \o InnerJoin(Tail(left), right)

\* sort_values(by='date'): rows in date order, equal dates in their given order.
RECURSIVE InsertByDate(_, _)
InsertByDate(sorted, row) ==
    IF sorted = <<>> THEN <<row>>
    ELSE IF Head(sorted).date <= row.date THEN <<Head(sorted)>> \o InsertByDate(Tail(sorted), row)
    ELSE <<row>> \o sorted

RECURSIVE SortByDate(_)
SortByDate(rows) ==
    IF rows = <<>> THEN <<>>
    ELSE InsertByDate(SortByDate(SubSeq(rows, 1, Len(rows) - 1)), rows[Len(rows)])

MergeFrames(left, right) == SortByDate(InnerJoin(left, right))

\* "if not tvl_data_raw": return the empty frame before anything else is read.
MergeCheckTvl ==
    /\ m_pc = "start"
    /\ IF tvl_data_raw = <<>>
       THEN m_pc' = "done" /\ m_out' = Returned(EmptyDataFrame)
       ELSE m_pc' = "clean" /\ m_out' = m_out
    /\ UNCHANGED <<tvl_data_raw, price_data_raw, processed_tvl, df_tvl, df_price>>
    /\ UNCHANGED othersOfMerge

MergeCleanTvlNoEmptyCheck ==
    /\ m_pc = "clean"
    /\ LET c == CleanTvl(tvl_data_raw) IN
       /\ processed_tvl' = c.rows
       /\ m_pc' = "price" /\ m_out' = m_out /\ df_tvl' = TvlFrame(c.rows)
    /\ UNCHANGED <<tvl_data_raw, price_data_raw, df_price>>
    /\ UNCHANGED othersOfMerge
\* The TVL loop, "if not processed_tvl", and df_tvl.
MergeCleanTvl ==
    /\ m_pc = "clean"
    /\ LET c == CleanTvl(tvl_data_raw) IN
       /\ processed_tvl' = c.rows
       /\ IF c.exc # ""
          THEN m_pc' = "done" /\ m_out' = Raised(c.exc) /\ df_tvl' = df_tvl
          ELSE IF c.rows = <<>>
          THEN m_pc' = "done" /\ m_out' = Returned(EmptyDataFrame) /\ df_tvl' = df_tvl
          ELSE m_pc' = "price" /\ m_out' = m_out /\ df_tvl' = TvlFrame(c.rows)
    /\ UNCHANGED <<tvl_data_raw, price_data_raw, df_price>>
    /\ UNCHANGED othersOfMerge

\* "if not price_data_raw", then df_price.
MergeBuildPrice ==
    /\ m_pc = "price"
    /\ IF price_data_raw = <<>>
       THEN m_pc' = "done" /\ m_out' = Returned(EmptyDataFrame) /\ df_price' = df_price
       ELSE LET p == PriceFrame(price_data_raw) IN
            IF p.ok
            THEN m_pc' = "join" /\ m_out' = m_out /\ df_price' = p.v
            ELSE m_pc' = "done" /\ m_out' = Raised(p.exc) /\ df_price' = df_price
    /\ UNCHANGED <<tvl_data_raw, price_data_raw, processed_tvl, df_tvl>>
    /\ UNCHANGED othersOfMerge

\* pd.merge, to_numeric, sort_values, reset_index, return.
MergeJoin ==
    /\ m_pc = "join"
    /\ m_out' = Returned(MergeFrames(df_tvl, df_price))
    /\ m_pc' = "done"
    /\ UNCHANGED <<tvl_data_raw, price_data_raw, processed_tvl, df_tvl, df_price>>
    /\ UNCHANGED othersOfMerge

(***************************************************************************)
(* fetch_price_data.  The exchange is a paged source: each request either  *)
(* raises, returns an empty page, or returns one more non-empty page.      *)
(*   requests  the since argument of every fetch_ohlcv call, in order      *)
(*   served    the non-empty pages fetch_ohlcv returned, in order          *)
(*   exchange  "none", "created" (the ccxt object exists), "closed"        *)
(*   caught    the except clause that ended the loop, if any               *)
(***************************************************************************)
FetchErrors == {"NetworkError", "ExchangeError", "Exception"}

\* all_ohlcv.extend(ohlcv_chunk)
ExtendReplacing(all, chunk) == chunk
Extend(all, chunk) == all \o chunk

\* A cursor that restarts at the last record instead of after it.
NextSinceAtLast(chunk) ==
    LET ts == PyIndex(chunk[Len(chunk)], 0) IN
    IF ~ts.ok THEN Raise(ts.exc)
    ELSE IF ts.v.k # "num" THEN Raise("TypeError")
    ELSE [ok |-> TRUE, v |-> MillisOf(ts.v.n), exc |-> ""]

\* last_timestamp_ms = ohlcv_chunk[-1][0]; since_timestamp = last_timestamp_ms + 1
NextSince(chunk) ==
    LET ts == PyIndex(chunk[Len(chunk)], 0) IN
    IF ~ts.ok THEN Raise(ts.exc)
    ELSE IF ts.v.k # "num" THEN Raise("TypeError")
    ELSE [ok |-> TRUE, v |-> MillisOf(ts.v.n + 1), exc |-> ""]

\* A deduplication that lets a later candle take the place of the earlier one
\* with its timestamp.
DedupStepKeepingLast(acc, candle) ==
    IF acc.exc # "" THEN acc
    ELSE IF candle = <<>> THEN [acc EXCEPT !.exc = "IndexError"]
    ELSE [acc EXCEPT !.out = [i \in DOMAIN @ |-> IF @[i][1] = candle[1] THEN candle ELSE @[i]]
                            \o (IF candle[1] \in acc.seen THEN <<>> ELSE <<candle>>),
                     !.seen = @ \cup {candle[1]}]

\* One iteration of "for candle in all_ohlcv": acc is [seen, out, exc].
DedupStep(acc, candle) ==
    IF acc.exc # "" THEN acc
    ELSE LET ts == PyIndex(candle, 0) IN
         IF ~ts.ok THEN [acc EXCEPT !.exc = ts.exc]
         ELSE IF ts.v \in acc.seen THEN acc
         ELSE [acc EXCEPT !.out = Append(@, candle), !.seen = @ \cup {ts.v}]

RECURSIVE DedupLoop(_, _)
DedupLoop(acc, candles) ==
    IF candles = <<>> THEN acc ELSE DedupLoop(DedupStep(acc, Head(candles)), Tail(candles))

\* The loop over all_ohlcv: seen holds the timestamps met, out the rows kept.
Dedup(all) == DedupLoop([seen |-> {}, out |-> <<>>, exc |-> ""], all)

\* The pages the exchange may serve, and how many: a direct call explores more
\* than a run of the whole pipeline.
PageLimit == IF entry = "fetch_price_data" THEN MaxPages ELSE MaxPipePages
PagesServed == IF entry = "fetch_price_data" THEN Pages ELSE PipePages

\* The exchange object is created, then the start date is parsed, outside the
\* try block: int(datetime.strptime(start_date_str, '%Y-%m-%d').timestamp() * 1000)
FetchBegin ==
    /\ f_pc = "start"
    /\ exchange' = "created"
    /\ LET day == IF start_date_str.k = "str" THEN StrPTime(start_date_str.s)
                  ELSE Raise("TypeError") IN
       IF day.ok
       THEN /\ since_timestamp' = Millis(LocalMidnight(day.v.n, tz), 0)
            /\ f_pc' = "loop" /\ f_out' = f_out
       ELSE /\ since_timestamp' = since_timestamp
            /\ f_pc' = "done" /\ f_out' = Raised(day.exc)
    /\ UNCHANGED <<start_date_str, all_ohlcv, requests, served, caught>>
    /\ UNCHANGED othersOfFetch

\* fetch_ohlcv raises: the matching except clause prints and the loop is left.
FetchPageErrorDiscarding ==
    /\ f_pc = "loop"
    /\ \E e \in FetchErrors : caught' = e
    /\ requests' = Append(requests, since_timestamp)
    /\ f_pc' = "finally"
    /\ all_ohlcv' = <<>>
    /\ UNCHANGED <<start_date_str, exchange, since_timestamp, served, f_out>>
    /\ UNCHANGED othersOfFetch
FetchPageError ==
    /\ f_pc = "loop"
    /\ \E e \in FetchErrors : caught' = e
    /\ requests' = Append(requests, since_timestamp)
    /\ f_pc' = "finally"
    /\ UNCHANGED <<start_date_str, exchange, all_ohlcv, since_timestamp, served, f_out>>
    /\ UNCHANGED othersOfFetch

\* fetch_ohlcv returns an empty page: break.
FetchPageEmpty ==
    /\ f_pc = "loop"
    /\ requests' = Append(requests, since_timestamp)
    /\ f_pc' = "finally"
    /\ UNCHANGED <<start_date_str, exchange, all_ohlcv, since_timestamp, served, caught, f_out>>
    /\ UNCHANGED othersOfFetch

\* fetch_ohlcv returns a non-empty page: extend, advance since, sleep, loop.
\* An exception raised while advancing is caught by "except Exception".
FetchPageData ==
    /\ f_pc = "loop"
    /\ Len(served) < PageLimit
    /\ \E chunk \in PagesServed :
          /\ requests' = Append(requests, since_timestamp)
          /\ served' = Append(served, chunk)
          /\ all_ohlcv' = Extend(all_ohlcv, chunk)
          /\ LET next == NextSince(chunk) IN
             IF next.ok
             THEN since_timestamp' = next.v /\ f_pc' = "loop" /\ caught' = caught
             ELSE since_timestamp' = since_timestamp /\ f_pc' = "finally" /\ caught' = "Exception"
    /\ UNCHANGED <<start_date_str, exchange, f_out>>
    /\ UNCHANGED othersOfFetch

\* finally: await exchange.close()
FetchFinally ==
    /\ f_pc = "finally"
    /\ exchange' = "closed"
    /\ f_pc' = "dedup"
    /\ UNCHANGED <<start_date_str, all_ohlcv, since_timestamp, requests, served, caught, f_out>>
    /\ UNCHANGED othersOfFetch

\* "if not all_ohlcv: ... return []", else the deduplication loop, which is
\* outside every try block.
FetchReturn ==
    /\ f_pc = "dedup"
    /\ f_pc' = "done"
    /\ IF all_ohlcv = <<>> THEN f_out' = Returned(<<>>)
       ELSE LET r == Dedup(all_ohlcv) IN
            f_out' = IF r.exc # "" THEN Raised(r.exc) ELSE Returned(r.out)
    /\ UNCHANGED <<start_date_str, exchange, all_ohlcv, since_timestamp, requests, served, caught>>
    /\ UNCHANGED othersOfFetch

(***************************************************************************)
(* scrape_aave_tvl_raw.  A response is what scraper.get gives:             *)
(*   get      "raises" or "ok"                                             *)
(*   status   the HTTP status code                                         *)
(*   script   the __NEXT_DATA__ tag: "missing", "no_string" (tag.string is *)
(*            None), "not_json", or "json"                                 *)
(*   top      the type of the parsed document: "dict" or "list"            *)
(*   props, pageProps, tvl                                                 *)
(*            what the keys props, pageProps, tvlChartData hold: "dict",   *)
(*            "list", "null", or "missing" for an absent key               *)
(*   data     the tvlChartData array when tvl = "list"                     *)
(***************************************************************************)
HttpOk == 200

OkList(list) == [ok |-> TRUE, v |-> list, exc |-> ""]
RaiseList(e) == [ok |-> FALSE, v |-> <<>>, exc |-> e]

\* The type of d.get(key, {}) for d of type parent holding a value of type
\* child at key: "error" (AttributeError) when d is no dict, the default {}
\* when the key is absent.
TypeAfterGet(parent, child) ==
    IF parent # "dict" THEN "error"
    ELSE IF child = "missing" THEN "dict" ELSE child

\* json_data.get('props', {}).get('pageProps', {}).get('tvlChartData', []),
\* then "if tvl_chart_data: ... else: tvl_chart_data = []".
DescendKeyPath(r) ==
    LET props == TypeAfterGet(r.top, r.props)
        pagePropsKey == IF r.props = "missing" THEN "missing" ELSE r.pageProps
        pageProps == TypeAfterGet(props, pagePropsKey)
        tvlKey == IF pagePropsKey = "missing" THEN "missing" ELSE r.tvl IN
    IF props # "dict" \/ pageProps # "dict" THEN RaiseList("AttributeError")
    ELSE IF tvlKey = "list" THEN OkList(r.data)
    ELSE OkList(<<>>)

\* The inner try: json.loads, the key path, "except json.JSONDecodeError".
ParseScript(r) ==
    IF r.script = "no_string" THEN RaiseList("TypeError")
    ELSE IF r.script = "not_json" THEN OkList(<<>>)
    ELSE DescendKeyPath(r)

\* The body of the outer try: tvl_chart_data, or the exception that leaves it.
TryBodyIgnoringStatus(r) ==
    IF r.get = "raises" THEN RaiseList("ConnectionError")
    ELSE IF r.script = "missing" THEN OkList(<<>>)
    ELSE ParseScript(r)
TryBody(r) ==
    IF r.get = "raises" THEN RaiseList("ConnectionError")
    ELSE IF r.status # HttpOk THEN OkList(<<>>)
    ELSE IF r.script = "missing" THEN OkList(<<>>)
    ELSE ParseScript(r)

\* "except Exception": every exception of the try body is one.
ExceptionClasses == {"ConnectionError", "TypeError", "AttributeError", "JSONDecodeError"}

\* scraper = cloudscraper.create_scraper(...); tvl_chart_data = None
ScrapeCreate ==
    /\ s_pc = "start"
    /\ scraper' = "created"
    /\ tvl_chart_data' = None
    /\ s_pc' = "get"
    /\ UNCHANGED <<response, s_out>>
    /\ UNCHANGED othersOfScrape

\* The outer try, from scraper.get to the except clause.
ScrapeGet ==
    /\ s_pc = "get"
    /\ \E r \in Responses :
          /\ response' = r
          /\ LET x == TryBody(r) IN
             IF x.ok THEN tvl_chart_data' = x.v /\ s_out' = s_out
             ELSE IF x.exc \in ExceptionClasses THEN tvl_chart_data' = <<>> /\ s_out' = s_out
             ELSE tvl_chart_data' = tvl_chart_data /\ s_out' = Raised(x.exc)
    /\ s_pc' = "finally"
    /\ UNCHANGED scraper
    /\ UNCHANGED othersOfScrape

\* finally: scraper.close(); return tvl_chart_data
ScrapeFinally ==
    /\ s_pc = "finally"
    /\ scraper' = "closed"
    /\ s_pc' = "done"
    /\ s_out' = IF s_out.st = "raised" THEN s_out ELSE Returned(tvl_chart_data)
    /\ UNCHANGED <<response, tvl_chart_data>>
    /\ UNCHANGED othersOfScrape

(***************************************************************************)
(* The orchestrators: load_master_data / fetch_all_data (app.py) and main  *)
(* (scraper.py).  calls lists the functions invoked, in order.             *)
(***************************************************************************)
S_2020_01_01 == <<"2", "0", "2", "0", "-", "0", "1", "-", "0", "1">>
DefaultStartDate == Str(S_2020_01_01)

\* Whether the orchestrator returns at once when the scrape gave nothing:
\* fetch_all_data does ("if not tvl_data_raw: return None, None"), main goes on
\* with the default start date.
NeverGates(i) == FALSE
GatesOnEmptyTvl(i) == i = "app"

\* Whether it returns at once when the price fetch gave nothing: fetch_all_data
\* returns (tvl, None) and load_master_data the empty frame; main calls
\* process_and_merge whatever the fetch returned.
GatesOnEmptyPrice(i) == i = "app"

\* The exceptions the except clause around the start-date derivation catches:
\* "except Exception" in fetch_all_data, "except (ValueError, TypeError)" in main.
DeriveCatches(i) ==
    IF i = "app" THEN {"ValueError", "TypeError", "IndexError", "AttributeError"}
    ELSE {"ValueError", "TypeError"}

\* The filter of the generator: "item and len(item) > 0", and in main also
\* "item[0].isdigit()", which only a str has.
PassesFilter(i, item) ==
    IF item = <<>> THEN Ok(Num(0))
    ELSE IF i = "app" THEN Ok(Num(1))
    ELSE IF item[1].k # "str" THEN Raise("AttributeError")
    ELSE IF IsDigit(item[1].s) THEN Ok(Num(1)) ELSE Ok(Num(0))

\* One item of min(int(item[0]) for item in ... if ...): acc is [seen, min, exc].
MinStep(i, acc, item) ==
    IF acc.exc # "" THEN acc
    ELSE LET f == PassesFilter(i, item) IN
         IF ~f.ok THEN [acc EXCEPT !.exc = f.exc]
         ELSE IF f.v.n = 0 THEN acc
         ELSE LET ts == PyInt(item[1]) IN
              IF ~ts.ok THEN [acc EXCEPT !.exc = ts.exc]
              ELSE IF ~acc.seen \/ ts.v.n < acc.min
              THEN [acc EXCEPT !.seen = TRUE, !.min = ts.v.n]
              ELSE acc

RECURSIVE MinLoop(_, _, _)
MinLoop(i, acc, items) ==
    IF items = <<>> THEN acc ELSE MinLoop(i, MinStep(i, acc, Head(items)), Tail(items))

\* min(...) of the timestamps: ValueError when the generator yields nothing.
OldestTimestamp(i, items) ==
    LET r == MinLoop(i, [seen |-> FALSE, min |-> 0, exc |-> ""], items) IN
    IF r.exc # "" THEN Raise(r.exc)
    ELSE IF ~r.seen THEN Raise("ValueError")
    ELSE Ok(Num(r.min))

\* The start date handed to the price fetch, or the exception that escapes.
DeriveStartDate(i, items, offset) ==
    IF i = "scraper" /\ items = <<>> THEN Ok(DefaultStartDate)
    ELSE LET oldest == OldestTimestamp(i, items) IN
         IF oldest.ok THEN Ok(Str(StrFTime(LocalDay(oldest.v.n, offset))))
         ELSE IF oldest.exc \in DeriveCatches(i) THEN Ok(DefaultStartDate)
         ELSE Raise(oldest.exc)

\* Whether the orchestrator has called the function f.
Invoked(f) == \E i \in 1..Len(calls) : calls[i] = f

othersOfOrch == <<impl, entry, tz, dashVars>>

\* tvl_data_raw = await scrape_aave_tvl_raw(tvl_url)
OrchCallScrape ==
    /\ o_pc = "start"
    /\ o_pc' = "scraping"
    /\ calls' = Append(calls, "scrape_aave_tvl_raw")
    /\ s_pc' = "start" /\ scraper' = "none" /\ response' = NoResponse
    /\ tvl_chart_data' = None /\ s_out' = Pending
    /\ UNCHANGED <<tvl_raw, oldest_date_str, price_raw, df_final>>
    /\ UNCHANGED <<othersOfOrch, mergeVars, fetchVars>>

\* The scrape has returned: the first gate.
OrchAfterScrape ==
    /\ o_pc = "scraping" /\ s_pc = "done"
    /\ tvl_raw' = s_out.rows
    /\ IF s_out.st = "raised"
       THEN o_pc' = "done" /\ df_final' = Raised(s_out.exc)
       ELSE IF s_out.rows = <<>> /\ GatesOnEmptyTvl(impl)
       THEN o_pc' = "done" /\ df_final' = Returned(EmptyDataFrame)
       ELSE o_pc' = "derive" /\ df_final' = df_final
    /\ UNCHANGED <<oldest_date_str, price_raw, calls>>
    /\ UNCHANGED <<othersOfOrch, mergeVars, fetchVars, scrapeVars>>

\* The start date: the day of the oldest TVL timestamp, or the default.
OrchDeriveStartDate ==
    /\ o_pc = "derive"
    /\ LET d == DeriveStartDate(impl, tvl_raw, tz) IN
       IF d.ok
       THEN o_pc' = "call_fetch" /\ oldest_date_str' = d.v /\ df_final' = df_final
       ELSE o_pc' = "done" /\ oldest_date_str' = oldest_date_str /\ df_final' = Raised(d.exc)
    /\ UNCHANGED <<tvl_raw, price_raw, calls>>
    /\ UNCHANGED <<othersOfOrch, mergeVars, fetchVars, scrapeVars>>

\* price_data_raw = await fetch_price_data('AAVE/USDT', oldest_date_str)
OrchCallFetch ==
    /\ o_pc = "call_fetch"
    /\ o_pc' = "fetching"
    /\ calls' = Append(calls, "fetch_price_data")
    /\ f_pc' = "start" /\ start_date_str' = oldest_date_str /\ exchange' = "none"
    /\ all_ohlcv' = <<>> /\ since_timestamp' = Millis(0, 0) /\ requests' = <<>>
    /\ served' = <<>> /\ caught' = "" /\ f_out' = Pending
    /\ UNCHANGED <<tvl_raw, oldest_date_str, price_raw, df_final>>
    /\ UNCHANGED <<othersOfOrch, mergeVars, scrapeVars>>

\* The fetch has returned or raised: the second gate, then the call of
\* process_and_merge.
OrchAfterFetch ==
    /\ o_pc = "fetching" /\ f_pc = "done"
    /\ IF f_out.st = "raised"
       THEN /\ o_pc' = "done" /\ df_final' = Raised(f_out.exc)
            /\ UNCHANGED <<price_raw, calls, mergeVars>>
       ELSE IF f_out.rows = <<>> /\ GatesOnEmptyPrice(impl)
       THEN /\ o_pc' = "done" /\ df_final' = Returned(EmptyDataFrame)
            /\ price_raw' = f_out.rows
            /\ UNCHANGED <<calls, mergeVars>>
       ELSE /\ o_pc' = "merging" /\ df_final' = df_final
            /\ price_raw' = f_out.rows
            /\ calls' = Append(calls, "process_and_merge")
            /\ m_pc' = "start" /\ tvl_data_raw' = tvl_raw /\ price_data_raw' = f_out.rows
            /\ processed_tvl' = <<>> /\ df_tvl' = <<>> /\ df_price' = <<>> /\ m_out' = Pending
    /\ UNCHANGED <<tvl_raw, oldest_date_str>>
    /\ UNCHANGED <<othersOfOrch, fetchVars, scrapeVars>>

\* process_and_merge has returned or raised: its frame is the result.
OrchAfterMerge ==
    /\ o_pc = "merging" /\ m_pc = "done"
    /\ o_pc' = "done"
    /\ df_final' = m_out
    /\ UNCHANGED <<tvl_raw, oldest_date_str, price_raw, calls>>
    /\ UNCHANGED <<othersOfOrch, mergeVars, fetchVars, scrapeVars>>

(***************************************************************************)
(* The dashboard script: the module-level statements of app.py that run    *)
(* after load_master_data.  Dates are day numbers.                         *)
(***************************************************************************)
\* datetime.today(), as a day number (2026-01-01).
Today == 20454
DaysPerYear == 365

MergedColumns == {"date", "tvl", "price"}

\* The columns of what load_master_data returned: the frame pd.merge made has
\* date, tvl and price even with no rows; pd.DataFrame(), returned at the
\* gates and by the early returns of process_and_merge, has none.
ColumnsOfResult ==
    IF Invoked("process_and_merge") /\ m_pc = "done" /\ df_price # <<>>
    THEN MergedColumns ELSE {}

MinOfDates(rows) == CHOOSE d \in {rows[i].date : i \in DOMAIN rows} :
                        \A i \in DOMAIN rows : d <= rows[i].date
MaxOfDates(rows) == CHOOSE d \in {rows[i].date : i \in DOMAIN rows} :
                        \A i \in DOMAIN rows : d >= rows[i].date
Later(a, b) == IF a >= b THEN a ELSE b

Timeframes == {"1w", "1m", "3m", "6m", "YTD", "1y", "All"}

\* start_date for the selected time range: max(end_date - span, min_date).
StartDate(timeframe, lo, hi) ==
    CASE timeframe = "1w" -> Later(hi - 7, lo)
      [] timeframe = "1m" -> Later(hi - 30, lo)
      [] timeframe = "3m" -> Later(hi - 90, lo)
      [] timeframe = "6m" -> Later(hi - 180, lo)
      [] timeframe = "YTD" -> Later(DaysFromCivil(CivilFromDays(hi)[1], 1, 1), lo)
      [] timeframe = "1y" -> Later(hi - DaysPerYear, lo)
      [] OTHER -> lo

\* df[df['date'] >= start]: the rows from the start date on.
RECURSIVE RowsFrom(_, _)
RowsFrom(rows, start) ==
    IF rows = <<>> THEN <<>>
    ELSE (IF Head(rows).date >= start THEN <<Head(rows)>> ELSE <<>>)
         \o RowsFrom(Tail(rows), start)

\* df[name]: KeyError when the frame has no such column.
Column(df, name) == IF name \in df.columns THEN Ok(None) ELSE Raise("KeyError")

CouldNotLoad == "Could not load data. Please check the CSV file."
NotEnoughData == "Not enough data for correlation in the selected timeframe."

\* with st.spinner(...): df_full = load_master_data()
DashCallLoad ==
    /\ d_pc = "start"
    /\ d_pc' = "loading"
    /\ o_pc' = "start"
    /\ UNCHANGED <<tvl_raw, oldest_date_str, price_raw, calls, df_final>>
    /\ UNCHANGED <<df_full, min_date, max_date, selected_timeframe, start_date,
                   df_filtered_for_corr, notices, d_out>>
    /\ UNCHANGED <<impl, entry, tz, mergeVars, fetchVars, scrapeVars>>

\* load_master_data has returned its frame, or its exception ends the script.
DashLoaded ==
    /\ d_pc = "loading" /\ o_pc = "done"
    /\ IF df_final.st = "raised"
       THEN d_pc' = "done" /\ d_out' = Raised(df_final.exc) /\ df_full' = df_full
       ELSE d_pc' = "range" /\ d_out' = d_out
            /\ df_full' = Frame(ColumnsOfResult, df_final.rows)
    /\ UNCHANGED <<min_date, max_date, selected_timeframe, start_date,
                   df_filtered_for_corr, notices>>
    /\ UNCHANGED <<impl, entry, tz, mergeVars, fetchVars, scrapeVars, orchVars>>

\* max_date = today, min_date = a year before; "if df_full.empty: st.warning
\* else: min and max of the date column".
DashDateRange ==
    /\ d_pc = "range"
    /\ d_pc' = "select"
    /\ IF df_full.rows = <<>>
       THEN /\ notices' = Append(notices, CouldNotLoad)
            /\ min_date' = Today - DaysPerYear /\ max_date' = Today
       ELSE /\ notices' = notices
            /\ min_date' = MinOfDates(df_full.rows) /\ max_date' = MaxOfDates(df_full.rows)
    /\ UNCHANGED <<df_full, selected_timeframe, start_date, df_filtered_for_corr, d_out>>
    /\ UNCHANGED <<impl, entry, tz, mergeVars, fetchVars, scrapeVars, orchVars>>

\* The time range selector, start_date, and
\* df_filtered_for_corr = df_full[df_full['date'] >= start_date].copy()
DashFilter ==
    /\ d_pc = "select"
    /\ \E timeframe \in Timeframes :
          /\ selected_timeframe' = timeframe
          /\ start_date' = StartDate(timeframe, min_date, max_date)
          /\ IF Column(df_full, "date").ok
             THEN /\ d_pc' = "chart" /\ d_out' = d_out
                  /\ df_filtered_for_corr' =
                        RowsFrom(df_full.rows, StartDate(timeframe, min_date, max_date))
             ELSE /\ d_pc' = "done" /\ d_out' = Raised(Column(df_full, "date").exc)
                  /\ df_filtered_for_corr' = df_filtered_for_corr
    /\ UNCHANGED <<df_full, min_date, max_date, notices>>
    /\ UNCHANGED <<impl, entry, tz, mergeVars, fetchVars, scrapeVars, orchVars>>

\* The chart reads the date, tvl and price columns of df_full.
DashChart ==
    /\ d_pc = "chart"
    /\ IF \A name \in MergedColumns : Column(df_full, name).ok
       THEN d_pc' = "corr" /\ d_out' = d_out
       ELSE d_pc' = "done" /\ d_out' = Raised("KeyError")
    /\ UNCHANGED <<df_full, min_date, max_date, selected_timeframe, start_date,
                   df_filtered_for_corr, notices>>
    /\ UNCHANGED <<impl, entry, tz, mergeVars, fetchVars, scrapeVars, orchVars>>

\* "if df_filtered_for_corr.empty or len(df_filtered_for_corr) < 2: st.warning
\* else: the correlation metrics"; the script ends.
DashCorrelation ==
    /\ d_pc = "corr"
    /\ d_pc' = "done"
    /\ d_out' = Returned(df_filtered_for_corr)
    /\ notices' = IF Len(df_filtered_for_corr) < 2
                  THEN Append(notices, NotEnoughData) ELSE notices
    /\ UNCHANGED <<df_full, min_date, max_date, selected_timeframe, start_date,
                   df_filtered_for_corr>>
    /\ UNCHANGED <<impl, entry, tz, mergeVars, fetchVars, scrapeVars, orchVars>>

(***************************************************************************)
(* SpecMerge: process_and_merge called on every pair of bounded inputs.    *)
(***************************************************************************)
InitMerge ==
    /\ impl = "app" /\ entry = "process_and_merge" /\ tz = 0
    /\ m_pc = "start"
    /\ tvl_data_raw \in SeqsUpTo(TvlPoints, MaxTvlLen)
    /\ price_data_raw \in SeqsUpTo(Candles, MaxCandleLen)
    /\ processed_tvl = <<>> /\ df_tvl = <<>> /\ df_price = <<>> /\ m_out = Pending
    /\ IdleFetch /\ IdleScrape /\ IdleOrch /\ IdleDash

NextMerge ==
    \/ MergeCheckTvl
    \/ MergeCleanTvl
    \/ MergeBuildPrice
    \/ MergeJoin

SpecMerge == InitMerge /\ [][NextMerge]_vars

(***************************************************************************)
(* SpecFetch: fetch_price_data called directly.                            *)
(***************************************************************************)
InitFetch ==
    /\ impl \in {"app", "scraper"} /\ entry = "fetch_price_data" /\ tz \in TzOffsets
    /\ f_pc = "start" /\ start_date_str \in StartDates /\ exchange = "none"
    /\ all_ohlcv = <<>> /\ since_timestamp = Millis(0, 0) /\ requests = <<>>
    /\ served = <<>> /\ caught = "" /\ f_out = Pending
    /\ IdleMerge /\ IdleScrape /\ IdleOrch /\ IdleDash

NextFetch ==
    \/ FetchBegin
    \/ FetchPageError
    \/ FetchPageEmpty
    \/ FetchPageData
    \/ FetchFinally
    \/ FetchReturn

SpecFetch == InitFetch /\ [][NextFetch]_vars

\* The event loop resumes every awaited call, so the function keeps stepping.
FairSpecFetch == SpecFetch /\ WF_vars(NextFetch)

(***************************************************************************)
(* SpecScrape: scrape_aave_tvl_raw called directly.                        *)
(***************************************************************************)
InitScrape ==
    /\ impl \in {"app", "scraper"} /\ entry = "scrape_aave_tvl_raw" /\ tz = 0
    /\ s_pc = "start" /\ scraper = "none" /\ response = NoResponse
    /\ tvl_chart_data = None /\ s_out = Pending
    /\ IdleMerge /\ IdleFetch /\ IdleOrch /\ IdleDash

NextScrape ==
    \/ ScrapeCreate
    \/ ScrapeGet
    \/ ScrapeFinally

SpecScrape == InitScrape /\ [][NextScrape]_vars

(***************************************************************************)
(* SpecPipe: a run of the whole pipeline under either orchestrator.        *)
(***************************************************************************)
Orchestrators == {"load_master_data", "main"}

InitPipe ==
    /\ impl \in {"app", "scraper"}
    /\ entry = (IF impl = "app" THEN "load_master_data" ELSE "main")
    /\ tz \in TzOffsets
    /\ o_pc = "start" /\ tvl_raw = <<>> /\ oldest_date_str = DefaultStartDate
    /\ price_raw = <<>> /\ calls = <<>> /\ df_final = Pending
    /\ IdleMerge /\ IdleFetch /\ IdleScrape /\ IdleDash

NextPipe ==
    \/ OrchCallScrape
    \/ ScrapeCreate
    \/ ScrapeGet
    \/ ScrapeFinally
    \/ OrchAfterScrape
    \/ OrchDeriveStartDate
    \/ OrchCallFetch
    \/ FetchBegin
    \/ FetchPageError
    \/ FetchPageEmpty
    \/ FetchPageData
    \/ FetchFinally
    \/ FetchReturn
    \/ OrchAfterFetch
    \/ MergeCheckTvl
    \/ MergeCleanTvl
    \/ MergeBuildPrice
    \/ MergeJoin
    \/ OrchAfterMerge

SpecPipe == InitPipe /\ [][NextPipe]_vars

(***************************************************************************)
(* SpecDash: one run of the dashboard script of app.py.                    *)
(***************************************************************************)
InitDash ==
    /\ impl = "app" /\ entry = "dashboard" /\ tz \in TzOffsets
    /\ d_pc = "start" /\ df_full = Frame({}, <<>>) /\ min_date = 0 /\ max_date = 0
    /\ selected_timeframe = "All" /\ start_date = 0
    /\ df_filtered_for_corr = <<>> /\ notices = <<>> /\ d_out = Pending
    /\ o_pc = "idle" /\ tvl_raw = <<>> /\ oldest_date_str = DefaultStartDate
    /\ price_raw = <<>> /\ calls = <<>> /\ df_final = Pending
    /\ IdleMerge /\ IdleFetch /\ IdleScrape

NextDash ==
    \/ DashCallLoad
    \/ OrchCallScrape
    \/ ScrapeCreate
    \/ ScrapeGet
    \/ ScrapeFinally
    \/ OrchAfterScrape
    \/ OrchDeriveStartDate
    \/ OrchCallFetch
    \/ FetchBegin
    \/ FetchPageError
    \/ FetchPageEmpty
    \/ FetchPageData
    \/ FetchFinally
    \/ FetchReturn
    \/ OrchAfterFetch
    \/ MergeCheckTvl
    \/ MergeCleanTvl
    \/ MergeBuildPrice
    \/ MergeJoin
    \/ OrchAfterMerge
    \/ DashLoaded
    \/ DashDateRange
    \/ DashFilter
    \/ DashChart
    \/ DashCorrelation

SpecDash == InitDash /\ [][NextDash]_vars

(***************************************************************************)
(* Properties of process_and_merge (SpecMerge).                            *)
(***************************************************************************)
\* A TVL point is valid when it has both fields, its timestamp parses as an
\* integer and its value parses as a float.
ValidPoint(p) == Len(p) >= 2 /\ PyInt(p[1]).ok /\ PyFloat(p[2]).ok
ValidIndices(raw) == {i \in DOMAIN raw : ValidPoint(raw[i])}
PointDay(p) == NormalizeSeconds(PyInt(p[1]).v.n)
TvlDays(raw) == {PointDay(raw[i]) : i \in ValidIndices(raw)}

WellFormedCandle(c) == Len(c) = CandleColumns /\ c[1].k = "num"
CandleDays(raw) == {NormalizeMs(raw[i][1].n) : i \in {j \in DOMAIN raw : Len(raw[j]) >= 1 /\ raw[j][1].k = "num"}}
DedupedByMs(raw) ==
    \A i, j \in DOMAIN raw : (i # j /\ Len(raw[i]) >= 1 /\ Len(raw[j]) >= 1) => raw[i][1] # raw[j][1]

MergeReturned == entry = "process_and_merge" /\ m_pc = "done" /\ m_out.st = "returned"
MergeCleaned == entry = "process_and_merge" /\ tvl_data_raw # <<>> /\ m_pc \in {"price", "join", "done"}

\* C6: for well-formed candles deduplicated by timestamp, the merge returns exactly one row per calendar
\* day present among both the valid TVL points' days and the candles' days, and
\* each row carries the tvl of a TVL point and the close of a candle of its day.
C6_OneRowPerCommonDay ==
    (/\ MergeReturned
     /\ DedupedByMs(price_data_raw)
     /\ \A i \in DOMAIN price_data_raw : WellFormedCandle(price_data_raw[i])) =>
        LET common == TvlDays(tvl_data_raw) \cap CandleDays(price_data_raw)
            rows == m_out.rows IN
        /\ Len(rows) = Cardinality(common)
        /\ {rows[i].date : i \in DOMAIN rows} = common
        /\ \A i \in DOMAIN rows :
              /\ \E j \in ValidIndices(tvl_data_raw) :
                    /\ PointDay(tvl_data_raw[j]) = rows[i].date
                    /\ PyFloat(tvl_data_raw[j][2]).v = rows[i].tvl
              /\ \E j \in DOMAIN price_data_raw :
                    /\ NormalizeMs(price_data_raw[j][1].n) = rows[i].date
                    /\ price_data_raw[j][PriceColumn] = rows[i].price

\* C7: for every TVL list and every candle list deduplicated by millisecond
\* timestamp, the returned rows are sorted by date and no two share a date.
C7_SortedNoDuplicateDates ==
    (MergeReturned /\ DedupedByMs(price_data_raw)) =>
        LET rows == m_out.rows IN
        /\ \A i \in 1..(Len(rows) - 1) : rows[i].date <= rows[i + 1].date
        /\ \A i, j \in DOMAIN rows : i # j => rows[i].date # rows[j].date

\* C8: after the TVL loop the cleaned records are exactly the valid points, in
\* order: invalid points are dropped one by one and the batch goes on.
C8_InvalidPointsDroppedAlone ==
    MergeCleaned =>
        LET valid == ValidIndices(tvl_data_raw) IN
        /\ Len(processed_tvl) = Cardinality(valid)
        /\ Len(df_tvl) = Cardinality(valid)
        /\ \A i \in DOMAIN processed_tvl :
              \E j \in valid : /\ Cardinality({v \in valid : v <= j}) = i
                               /\ processed_tvl[i].timestamp = PyInt(tvl_data_raw[j][1]).v.n
                               /\ processed_tvl[i].tvl = PyFloat(tvl_data_raw[j][2]).v

C8_Witness ==
    /\ MergeCleaned
    /\ Len(tvl_data_raw) = 2
    /\ ~ValidPoint(tvl_data_raw[1]) /\ ValidPoint(tvl_data_raw[2])
    /\ Len(processed_tvl) = 1

\* C9: the merge returns the empty frame, and raises nothing, when the TVL
\* input is empty (whatever the price input holds), when no TVL point is
\* valid, and when there are valid points but no candle.
C9_EmptyInputsGiveEmptyResult ==
    (entry = "process_and_merge" /\ m_pc = "done" /\
        \/ tvl_data_raw = <<>>
        \/ ValidIndices(tvl_data_raw) = {}
        \/ price_data_raw = <<>>)
    => m_out = Returned(EmptyDataFrame)

\* Empty TVL input with a price input the DataFrame constructor would reject.
C9_Witness ==
    /\ entry = "process_and_merge" /\ m_pc = "done"
    /\ tvl_data_raw = <<>>
    /\ price_data_raw # <<>> /\ MaxRowLen(price_data_raw) # CandleColumns
    /\ m_out = Returned(EmptyDataFrame)

\* No valid TVL point, with such a price input too.
C9_WitnessNoValidPoint ==
    /\ entry = "process_and_merge" /\ m_pc = "done"
    /\ tvl_data_raw # <<>> /\ ValidIndices(tvl_data_raw) = {}
    /\ MaxRowLen(price_data_raw) # CandleColumns
    /\ m_out = Returned(EmptyDataFrame)

\* Valid TVL points and no candle.
C9_WitnessNoCandle ==
    /\ entry = "process_and_merge" /\ m_pc = "done"
    /\ ValidIndices(tvl_data_raw) # {} /\ price_data_raw = <<>>
    /\ m_out = Returned(EmptyDataFrame)


\* A cell that is missing or not a number.
IsNull(cell) == cell.k # "num"

\* C14: for every TVL input whose points all pass the int/float parse and
\* every candle input, no row process_and_merge returns has a null tvl or a
\* null price.
C14_NoNullTvlOrPrice ==
    (MergeReturned /\ ValidIndices(tvl_data_raw) = DOMAIN tvl_data_raw) =>
        \A i \in DOMAIN m_out.rows :
            ~IsNull(m_out.rows[i].tvl) /\ ~IsNull(m_out.rows[i].price)

\* float('nan') passes the parse and reaches the result.
C14_NullTvl ==
    /\ MergeReturned /\ ValidIndices(tvl_data_raw) = DOMAIN tvl_data_raw
    /\ \E i \in DOMAIN m_out.rows :
          m_out.rows[i].tvl = NaN /\ ~IsNull(m_out.rows[i].price)

\* A short candle next to a 6-field one is padded, and its day is joined.
C14_NullPrice ==
    /\ MergeReturned /\ ValidIndices(tvl_data_raw) = DOMAIN tvl_data_raw
    /\ \E i \in DOMAIN m_out.rows :
          ~IsNull(m_out.rows[i].tvl) /\ IsNull(m_out.rows[i].price)
(***************************************************************************)
(* Properties of fetch_price_data (SpecFetch, FairSpecFetch).              *)
(***************************************************************************)
\* The candles of seq whose timestamp no earlier candle of seq has.
FirstOccurrences(seq) ==
    LET first == {i \in DOMAIN seq : \A j \in 1..(i - 1) : seq[j][1] # seq[i][1]}
        F[i \in 0..Len(seq)] ==
            IF i = 0 THEN <<>>
            ELSE IF i \in first THEN Append(F[i - 1], seq[i]) ELSE F[i - 1]
    IN F[Len(seq)]

\* Every row the exchange served has its timestamp field.
RowsHaveTimestamp == \A i \in DOMAIN served : \A j \in DOMAIN served[i] : served[i][j] # <<>>

FetchCalled == entry = "fetch_price_data" /\ requests # <<>>
LoopLeft == f_pc \in {"finally", "dedup", "done"}

\* C1 (state part): while no error is raised the loop goes on after each
\* non-empty page and is left only by an empty page; the result is then the
\* first occurrences, by timestamp, of the concatenation of the pages served.
C1_Result ==
    (FetchCalled /\ caught = "" /\ RowsHaveTimestamp) =>
        /\ f_pc = "loop" => Len(requests) = Len(served)
        /\ LoopLeft => Len(requests) = Len(served) + 1
        /\ f_pc = "done" => f_out = Returned(FirstOccurrences(Flatten(served)))

\* C1: a source that serves finitely many non-empty pages and then an empty
\* one makes fetch_price_data terminate with the deduplicated concatenation
\* of the pages, the empty page being what ends the loop.
C1_PaginationTerminates == []C1_Result /\ <>(f_pc = "done")

\* Two pages that share a timestamp, then the empty page.
C1_Witness ==
    /\ FetchCalled /\ caught = "" /\ RowsHaveTimestamp /\ f_pc = "done"
    /\ Len(served) = 2
    /\ f_out.st = "returned"
    /\ Len(f_out.rows) < Len(Flatten(served))
    /\ Len(f_out.rows) > Len(served[1])

\* C2: a network or exchange error on the k-th call ends the requests; the
\* function raises nothing and returns the deduplicated candles of the k-1
\* pages served before it.
C2_ErrorReturnsAccumulated ==
    (FetchCalled /\ caught \in {"NetworkError", "ExchangeError"} /\ RowsHaveTimestamp) =>
        /\ LoopLeft
        /\ Len(requests) = Len(served) + 1
        /\ all_ohlcv = Flatten(served)
        /\ f_pc = "done" => f_out = Returned(FirstOccurrences(Flatten(served)))

\* The error on the second call, one page kept.
C2_Witness ==
    /\ FetchCalled /\ caught = "NetworkError" /\ f_pc = "done"
    /\ Len(requests) = 2 /\ Len(served) = 1
    /\ f_out.st = "returned" /\ f_out.rows # <<>>

\* The error on the first call: the empty list.
C2_WitnessFirstCall ==
    /\ FetchCalled /\ caught = "ExchangeError" /\ f_pc = "done"
    /\ Len(requests) = 1 /\ f_out = Returned(<<>>)

\* C3: once a fetch operation has returned or raised, the exchange object or
\* scraper session it created has been closed.
C3_ReleasedOnEveryExit ==
    /\ f_pc = "done" => exchange # "created"
    /\ s_pc = "done" => scraper # "created"


\* The index in seq of the first candle with the timestamp ts.
FirstIndex(seq, ts) == CHOOSE i \in DOMAIN seq : seq[i][1] = ts /\ \A j \in 1..(i - 1) : seq[j][1] # ts

FetchDeduplicated ==
    /\ entry = "fetch_price_data" /\ f_pc = "done" /\ f_out.st = "returned"
    /\ \A i \in DOMAIN all_ohlcv : all_ohlcv[i] # <<>>

\* C15: of the accumulated candles (each with a timestamp) the deduplication
\* keeps, for each distinct timestamp, the first candle seen with it, in the
\* original relative order; applied to its own result it changes nothing.
C15_DedupKeepsFirstInOrder ==
    FetchDeduplicated =>
        LET all == all_ohlcv
            rows == f_out.rows IN
        /\ {rows[k][1] : k \in DOMAIN rows} = {all[i][1] : i \in DOMAIN all}
        /\ \A k, l \in DOMAIN rows : k # l => rows[k][1] # rows[l][1]
        /\ \A k \in DOMAIN rows : rows[k] = all[FirstIndex(all, rows[k][1])]
        /\ \A k \in 1..(Len(rows) - 1) :
              FirstIndex(all, rows[k][1]) < FirstIndex(all, rows[k + 1][1])
        /\ Dedup(rows) = [seen |-> {rows[k][1] : k \in DOMAIN rows}, out |-> rows, exc |-> ""]

\* The second page repeated timestamp 1 with another close: the first stays.
C15_Witness ==
    /\ FetchDeduplicated
    /\ Len(f_out.rows) = 3 /\ Len(all_ohlcv) = 4
    /\ all_ohlcv[2] = Candle(1, 11) /\ all_ohlcv[3] = Candle(1, 13)
    /\ f_out.rows[2] = Candle(1, 11)

\* The day whose '%Y-%m-%d' form is the string s, among the days around the
\* epoch.
DayRange == -2..2
DayWritten(s) == CHOOSE d \in DayRange : StrFTime(d) = s
InMs(t) == t.sec * MsPerSecond + t.ms

\* C16 (state part): the first request asks from 00:00 of the start date,
\* each later one from the last timestamp of the page before it plus one, and
\* an error-free run that has left the loop made one request per non-empty
\* page and one more.
C16_Requests ==
    FetchCalled =>
        /\ requests[1] = Millis(DayWritten(start_date_str.s) * SecondsPerDay - tz, 0)
        /\ Len(requests) <= Len(served) + 1
        /\ \A k \in 2..Len(requests) :
              LET page == served[k - 1] IN
              InMs(requests[k]) = page[Len(page)][1].n + 1
        /\ (caught = "" /\ LoopLeft) => Len(requests) = Len(served) + 1

\* C16: in fetch_price_data the first request uses since = 00:00 of the start
\* date (local time of the process) in milliseconds, every later request uses
\* the last timestamp of the preceding non-empty page plus one, and once the
\* loop is left (empty page or error) no request is issued.
C16_SinceCursor == []C16_Requests /\ [][LoopLeft => requests' = requests]_vars

\* Two pages then the empty page, on a host west of UTC: three requests.
C16_Witness ==
    /\ FetchCalled /\ caught = "" /\ f_pc = "done" /\ tz = -18000
    /\ start_date_str = Str(S_1970_01_02)
    /\ Len(served) = 2 /\ Len(requests) = 3
    /\ requests[1] = Millis(104400, 0)
    /\ requests[2] = Millis(0, 2)
    /\ requests[3] = Millis(86400, 1)
(***************************************************************************)
(* Properties of scrape_aave_tvl_raw (SpecScrape).                         *)
(***************************************************************************)
\* The key path props.pageProps.tvlChartData is absent from the document.
KeyPathMissing(r) ==
    /\ r.script = "json" /\ r.top = "dict"
    /\ \/ r.props = "missing"
       \/ r.props = "dict" /\ r.pageProps = "missing"
       \/ r.props = "dict" /\ r.pageProps = "dict" /\ r.tvl = "missing"

\* The four failure modes of a response that did arrive.
FailureMode(r) ==
    /\ r.get = "ok"
    /\ \/ r.status # HttpOk
       \/ r.script = "missing"
       \/ r.script = "not_json"
       \/ KeyPathMissing(r)

ScrapeDone == entry = "scrape_aave_tvl_raw" /\ s_pc = "done"

\* C4: the scrape never raises, and returns the empty list when the status is
\* not 200, the script tag is missing, its content is not JSON, or the key
\* path is missing.
C4_ScrapeFailsOpen ==
    ScrapeDone =>
        /\ s_out.st = "returned"
        /\ FailureMode(response) => s_out.rows = <<>>

\* Status 404 on a page that does carry chart data.
C4_Witness ==
    /\ ScrapeDone /\ response.get = "ok" /\ response.status = 404
    /\ response.tvl = "list" /\ response.data # <<>>
    /\ s_out = Returned(<<>>)

C4_WitnessNoScript ==
    ScrapeDone /\ response.status = HttpOk /\ response.script = "missing" /\ s_out = Returned(<<>>)

C4_WitnessNotJson ==
    ScrapeDone /\ response.status = HttpOk /\ response.script = "not_json" /\ s_out = Returned(<<>>)

C4_WitnessNoKeyPath ==
    ScrapeDone /\ response.status = HttpOk /\ KeyPathMissing(response) /\ s_out = Returned(<<>>)

\* A well-formed page: the array comes back as scraped.
C4_WitnessData ==
    ScrapeDone /\ ~FailureMode(response) /\ s_out.st = "returned" /\ s_out.rows # <<>>

(***************************************************************************)
(* The orchestrators' gates and malformed candle rows (SpecPipe).          *)
(***************************************************************************)
ScrapeGaveNothing == s_pc = "done" /\ s_out.st = "returned" /\ s_out.rows = <<>>
FetchGaveNothing == f_pc = "done" /\ f_out.st = "returned" /\ f_out.rows = <<>>
FetchGave == f_pc = "done" /\ f_out.st = "returned"
ResultEmpty == df_final = Returned(EmptyDataFrame)

\* The two gates as the orchestrator i is said to have them.
GatesHold ==
    /\ ScrapeGaveNothing =>
         /\ ~Invoked("fetch_price_data") /\ ~Invoked("process_and_merge")
         /\ o_pc = "done" => ResultEmpty
    /\ FetchGaveNothing =>
         /\ ~Invoked("process_and_merge")
         /\ o_pc = "done" => ResultEmpty

C5_WitnessPriceGate ==
    /\ impl = "app" /\ o_pc = "done" /\ FetchGaveNothing
    /\ calls = <<"scrape_aave_tvl_raw", "fetch_price_data">> /\ ResultEmpty

\* main went through both calls after an empty scrape.
C5_WitnessMain ==
    /\ impl = "scraper" /\ o_pc = "done" /\ ScrapeGaveNothing
    /\ calls = <<"scrape_aave_tvl_raw", "fetch_price_data", "process_and_merge">>
    /\ price_raw # <<>> /\ ResultEmpty

\* main merged after an empty price fetch.
C5_WitnessMainNoPrice ==
    /\ impl = "scraper" /\ o_pc = "done" /\ FetchGaveNothing /\ tvl_raw # <<>>
    /\ Invoked("process_and_merge") /\ ResultEmpty

\* Both orchestrators can also produce a result with rows.
PipeGivesRows == o_pc = "done" /\ df_final.st = "returned" /\ df_final.rows # <<>>

\* A candle row of other than 6 fields was served by the exchange.
WrongArityServed ==
    \E p \in 1..Len(served) : \E r \in 1..Len(served[p]) :
        Len(served[p][r]) # CandleColumns

\* C10: a candle row of the wrong arity never crashes the run: the price
\* fetch, the merge and the orchestrator finish without an uncaught exception
\* and the result is empty.
C10_WrongArityNeverCrashes ==
    WrongArityServed =>
        /\ f_out.st # "raised"
        /\ m_out.st # "raised"
        /\ df_final.st # "raised"
        /\ o_pc = "done" => ResultEmpty

\* The dedup loop's candle[0] raised out of fetch_price_data.
C10_FetchCrashed ==
    WrongArityServed /\ o_pc = "done" /\ f_out = Raised("IndexError") /\ df_final = Raised("IndexError")

\* The DataFrame constructor raised out of process_and_merge.
C10_MergeCrashed ==
    WrongArityServed /\ o_pc = "done" /\ m_out = Raised("ValueError") /\ df_final = Raised("ValueError")

(***************************************************************************)
(* The start date handed to the price fetch (SpecPipe).                    *)
(***************************************************************************)
\* The points whose timestamp field is a number or a digit string.
ParseableTs(raw) == {i \in DOMAIN raw : raw[i] # <<>> /\ PyInt(raw[i][1]).ok}
TsOf(p) == PyInt(p[1]).v.n
MinParseableTs(raw) ==
    CHOOSE m \in {TsOf(raw[i]) : i \in ParseableTs(raw)} :
        \A i \in ParseableTs(raw) : m <= TsOf(raw[i])

\* The orchestrator is past the derivation of the start date.
PastDerive == o_pc \in {"call_fetch", "fetching", "merging", "done"} /\ tvl_raw # <<>>

\* C11: for a non-empty TVL list with at least one parseable timestamp (other
\* points may be malformed), the start date handed to the price fetcher is
\* the calendar day of the smallest parseable timestamp, 1577836800 giving
\* "2020-01-01".
C11_StartDateIsDayOfMinimum ==
    (PastDerive /\ ParseableTs(tvl_raw) # {}) =>
        /\ o_pc = "done" => Invoked("fetch_price_data")
        /\ oldest_date_str = Str(StrFTime(NormalizeSeconds(MinParseableTs(tvl_raw))))

\* fetch_all_data fell back to the default although a timestamp parses.
C11_DefaultDespiteValidPoint ==
    /\ impl = "app" /\ tz = 0 /\ PastDerive /\ Invoked("fetch_price_data")
    /\ ParseableTs(tvl_raw) # {} /\ MinParseableTs(tvl_raw) = 0
    /\ start_date_str = DefaultStartDate

\* The day of the minimum was derived: every point parses, host on UTC.
C11_DayOfMinimumDerived ==
    /\ tz = 0 /\ PastDerive /\ Invoked("fetch_price_data")
    /\ Len(tvl_raw) = 2 /\ ParseableTs(tvl_raw) = {1, 2}
    /\ tvl_raw[1] # tvl_raw[2]
    /\ start_date_str = Str(S_1970_01_01)

\* C12: for every non-empty TVL list, under both orchestrators, deriving the
\* start date raises nothing out of the orchestrator: it goes on to the price
\* fetch, with the default "2020-01-01" when no timestamp parses.
C12_DeriveNeverAborts ==
    (tvl_raw # <<>> /\ o_pc \in {"call_fetch", "fetching", "merging", "done"}) =>
        /\ o_pc = "done" => Invoked("fetch_price_data")
        /\ ParseableTs(tvl_raw) = {} => oldest_date_str = DefaultStartDate

\* main ended in the derivation with the exception of item[0].isdigit().
C12_MainAborted ==
    /\ impl = "scraper" /\ o_pc = "done" /\ tvl_raw # <<>>
    /\ ~Invoked("fetch_price_data") /\ df_final = Raised("AttributeError")

\* fetch_all_data absorbed the exception and went on with the default.
C12_AppFellBack ==
    /\ impl = "app" /\ tvl_raw # <<>> /\ ParseableTs(tvl_raw) = {}
    /\ Invoked("fetch_price_data") /\ start_date_str = DefaultStartDate

(***************************************************************************)
(* The dashboard and an empty result (SpecDash).                           *)
(***************************************************************************)
ResultWasEmpty == df_final.st = "returned" /\ df_final.rows = <<>>
Noticed(text) == \E i \in DOMAIN notices : notices[i] = text

\* C13: when load_master_data returns an empty table, the dashboard script
\* shows its "could not load data" notice and runs to its end without an
\* uncaught exception; no column access on the empty table fails.
C13_DashboardSurvivesEmptyResult ==
    (d_pc = "done" /\ ResultWasEmpty) =>
        /\ Noticed(CouldNotLoad)
        /\ d_out.st = "returned"

\* The notice was shown, then df_full['date'] raised on the column-less frame.
C13_DashboardCrashed ==
    /\ d_pc = "done" /\ ResultWasEmpty /\ calls = <<"scrape_aave_tvl_raw">>
    /\ Noticed(CouldNotLoad) /\ d_out = Raised("KeyError")

\* A merge without common day gives a frame with columns and no rows: the
\* script then reaches its end with both notices.
C13_EmptyMergeSurvived ==
    /\ d_pc = "done" /\ ResultWasEmpty /\ df_full.columns = MergedColumns
    /\ Noticed(CouldNotLoad) /\ Noticed(NotEnoughData) /\ d_out = Returned(<<>>)

\* With rows the script shows the metrics or the second notice.
DashShowsRows == d_pc = "done" /\ d_out.st = "returned" /\ Len(d_out.rows) >= 2

====
